---- MODULE Spec2Model ----
(***************************************************************************)
(* HTLC escrow of fusion-plus-xlm (stellar-fusion): one escrow contract    *)
(* instance, its persistent storage, the ledger clock and the token        *)
(* balances the escrow moves; and the escrow factory                       *)
(* (stellar-fusion-factory): its configuration, its registry of salts and  *)
(* the escrow contracts it deploys.                                        *)
(***************************************************************************)
EXTENDS Integers, Sequences, FiniteSets, TLC

(***************************************************************************)
(* Bounds of the model.                                                    *)
(***************************************************************************)
\* ledger times 0..MaxClock are explored next to the two times of the tests
MaxClock == 3
\* largest principal amount passed to deploy
MaxAmount == 1
\* largest safety deposit passed to deploy
MaxDeposit == 2
\* the wrong secrets are 1..MaxSecret
MaxSecret == 1
\* the salts passed to the factory are 1..MaxSalt
MaxSalt == 2

(***************************************************************************)
(* Program constants.                                                      *)
(***************************************************************************)
SRC_WITHDRAWAL_TIMELOCK == 0
SRC_PUBLIC_WITHDRAWAL_TIMELOCK == 1
SRC_CANCELLATION_TIMELOCK == 2
SRC_PUBLIC_CANCELLATION_TIMELOCK == 3
DST_WITHDRAWAL_TIMELOCK == 4
DST_PUBLIC_WITHDRAWAL_TIMELOCK == 5
DST_CANCELLATION_TIMELOCK == 6

\* ledger times set by test_timelock_functionality
TestCreateTime == 1000
TestLaterTime == 2500
\* thresholds written by test_timelock_functionality
TestWithdrawalThreshold == 2000
TestPublicThreshold == 3000
\* create_secret_and_hash: the secret [42u8; 32]; the order hash [1u8; 32]
TestSecret == 42
TestOrderHash == 1

(***************************************************************************)
(* Accounts and assets.                                                    *)
(***************************************************************************)
Escrow == "escrow"
Maker == "maker"
Taker == "taker"
Relayer == "relayer"
Parties == {Maker, Taker, Relayer}
Accounts == {Escrow} \cup Parties

\* get_native_token_address: the one hard-coded native asset contract
NativeToken == "XLM"
OtherToken == "TOK"
Assets == {NativeToken, OtherToken}

Secrets == {TestSecret} \cup (1..MaxSecret)
\* env.crypto().sha256 on a 32-byte secret: injective on the secrets of the
\* model, and no digest is itself one of the secrets
Sha256(s) == 100 + 7 * s

(***************************************************************************)
(* u64 values are kept as their 8 bytes, least significant first, because  *)
(* the packed timelocks exceed the 32-bit integers of TLC.                 *)
(***************************************************************************)
Pow256(k) == IF k = 0 THEN 1 ELSE IF k = 1 THEN 256 ELSE IF k = 2 THEN 65536 ELSE 16777216

\* byte k of a 32-bit value v
ByteOf(v, k) == IF k < 0 \/ k > 3 THEN 0 ELSE (v \div Pow256(k)) % 256

\* (v as u64) << bits, for bits a multiple of 8; bytes above the 8th are lost
Shl64(v, bits) == [j \in 1..8 |-> ByteOf(v, (j - 1) - (bits \div 8))]

RECURSIVE BitOr(_, _, _)
BitOr(a, b, n) ==
    IF n = 0 THEN 0
    ELSE (IF (a % 2 = 1) \/ (b % 2 = 1) THEN 1 ELSE 0) + 2 * BitOr(a \div 2, b \div 2, n - 1)

\* x | y on u64
Or64(x, y) == [j \in 1..8 |-> BitOr(x[j], y[j], 8)]

Zero64 == [j \in 1..8 |-> 0]

\* timelocks.rs get_timelock: ((timelocks >> (index * 8)) & 0xFF) as u32
get_timelock(timelocks, index) == timelocks[index + 1]

RECURSIVE PackFrom(_, _)
PackFrom(t, i) ==
    IF i > Len(t) THEN Zero64
    ELSE Or64(Shl64(t[i], (i - 1) * 8), PackFrom(t, i + 1))

\* timelocks.rs pack_timelocks: packed |= (timelock as u64) << (i * 8)
pack_timelocks(t) == PackFrom(t, 1)

\* test.rs: (2000u64 << 32) | (3000u64 << 40)
TestTimelocks == Or64(Shl64(TestWithdrawalThreshold, 32), Shl64(TestPublicThreshold, 40))

\* thresholds in slot order: SRC_CANCELLATION 2, DST_WITHDRAWAL 1,
\* DST_PUBLIC_WITHDRAWAL 2, DST_CANCELLATION 3
StagedTimelocks == pack_timelocks(<<0, 0, 2, 0, 1, 2, 3>>)

TimelockChoices == {Zero64, TestTimelocks, StagedTimelocks}

Times == (0..MaxClock) \cup {TestCreateTime, TestLaterTime}

(***************************************************************************)
(* State.                                                                  *)
(***************************************************************************)
VARIABLES
    immutables,  \* storage entry "immutables" of the instance, or NoImmutables
    state,       \* storage entry "state" of the instance, or NoState
    now,         \* env.ledger().timestamp()
    balance,     \* balance[asset][account] kept by the token contracts
    op,          \* the last call made
    err,         \* its result: "Ok" or the error it failed with
    ret,         \* the value it returned, NoValue for () and for a failed call
    transfers,   \* the transfers <<asset, to, amount>> the call made, in order
    events,      \* the events the call published (none when it failed)
    admin,       \* factory instance storage ADMIN, or NoValue
    htlc_hash,   \* factory instance storage HTLC_HASH, or NoValue
    nonce,       \* factory instance storage NONCE, or NoValue
    deployed,    \* factory persistent storage (DEPLOYED, salt) -> escrow address
    instances    \* the contracts the factory deployed: address -> code and storage

escrowVars == <<immutables, state, balance, transfers>>
factoryVars == <<admin, htlc_hash, nonce, deployed, instances>>
vars == <<immutables, state, now, balance, op, err, ret, transfers, events,
          admin, htlc_hash, nonce, deployed, instances>>

NoValue == "none"
NoImmutables == [initialized |-> FALSE]
NoState == "unset"
Active == "Active"
Withdrawn == "Withdrawn"
Cancelled == "Cancelled"

\* types.rs struct Immutables
Immutables(order_hash, hashlock, maker, taker, token, amount, safety_deposit, timelocks) ==
    [initialized |-> TRUE, order_hash |-> order_hash, hashlock |-> hashlock,
     maker |-> maker, taker |-> taker, token |-> token, amount |-> amount,
     safety_deposit |-> safety_deposit, timelocks |-> timelocks]

\* storage.rs
is_initialized == immutables.initialized
get_state == IF state = NoState THEN Active ELSE state

\* events.rs
emit_escrow_created(order_hash, maker, taker) == <<"created", order_hash, maker, taker>>
\* a notification carrying the hash of the secret in the place of the secret
emit_secret_revealed_hashed(s) == <<"withdraw", Sha256(s)>>
emit_secret_revealed(s) == <<"withdraw", s>>
emit_escrow_cancelled == <<"cancel">>

(***************************************************************************)
(* Immutables::hash (types.rs).  The buffer that is hashed is kept as the  *)
(* sequence of its parts; sha256 on a buffer is taken to be collision-free *)
(* and is kept as the buffer under a tag.                                  *)
(***************************************************************************)
\* i128::to_be_bytes and the like: the w bytes of n >= 0, most significant first
RECURSIVE to_be_bytes(_, _)
to_be_bytes(n, w) ==
    IF w = 0 THEN <<>> ELSE Append(to_be_bytes(n \div 256, w - 1), n % 256)

\* u64::to_be_bytes of a value kept as its 8 bytes, least significant first
u64_to_be_bytes(x) == [j \in 1..8 |-> x[9 - j]]

crypto_sha256(bytes) == <<"sha256", bytes>>

MAKER_ADDR_PLACEHOLDER == "MAKER_ADDR_PLACEHOLDER"
TAKER_ADDR_PLACEHOLDER == "TAKER_ADDR_PLACEHOLDER"
TOKEN_ADDR_PLACEHOLDER == "TOKEN_ADDR_PLACEHOLDER"

\* types.rs hash: order_hash, hashlock, three fixed byte strings in the
\* place of maker, taker and token, then the numeric fields
hash(im) ==
    crypto_sha256(<<im.order_hash, im.hashlock>>
                  \o <<MAKER_ADDR_PLACEHOLDER, TAKER_ADDR_PLACEHOLDER,
                       TOKEN_ADDR_PLACEHOLDER>>
                  \o to_be_bytes(im.amount, 16)
                  \o to_be_bytes(im.safety_deposit, 16)
                  \o u64_to_be_bytes(im.timelocks))

(***************************************************************************)
(* Timelock policy (timelocks.rs).                                         *)
(***************************************************************************)
\* a private withdrawal window that closes when cancellation opens
can_withdraw_until_cancellation(timelocks, is_public) ==
    IF is_public
    THEN now >= get_timelock(timelocks, DST_PUBLIC_WITHDRAWAL_TIMELOCK)
    ELSE /\ now >= get_timelock(timelocks, DST_WITHDRAWAL_TIMELOCK)
         /\ now < get_timelock(timelocks, DST_CANCELLATION_TIMELOCK)

can_withdraw(timelocks, is_public) ==
    IF is_public
    THEN now >= get_timelock(timelocks, DST_PUBLIC_WITHDRAWAL_TIMELOCK)
    ELSE now >= get_timelock(timelocks, DST_WITHDRAWAL_TIMELOCK)

\* can_cancel open to the maker and the taker only, at every stage
can_cancel_parties_only(timelocks, c, maker, taker) ==
    IF now >= get_timelock(timelocks, DST_CANCELLATION_TIMELOCK)
    THEN c = maker \/ c = taker
    ELSE IF now >= get_timelock(timelocks, SRC_CANCELLATION_TIMELOCK)
         THEN c = maker \/ c = taker
         ELSE FALSE

\* can_cancel without the caller restriction of the private window
can_cancel_any_caller(timelocks, c, maker, taker) ==
    \/ now >= get_timelock(timelocks, DST_CANCELLATION_TIMELOCK)
    \/ now >= get_timelock(timelocks, SRC_CANCELLATION_TIMELOCK)

can_cancel(timelocks, c, maker, taker) ==
    IF now >= get_timelock(timelocks, DST_CANCELLATION_TIMELOCK) THEN TRUE
    ELSE IF now >= get_timelock(timelocks, SRC_CANCELLATION_TIMELOCK)
         THEN c = maker \/ c = taker
         ELSE FALSE

(***************************************************************************)
(* Transfers out of the escrow.  A transfer context is the balances and    *)
(* the log of the transfers made so far by the call, or a failure: the     *)
(* token contract rejects a negative amount and an amount above the        *)
(* sender's balance, which aborts the whole call.                          *)
(***************************************************************************)
Ctx(bal) == [ok |-> TRUE, bal |-> bal, log |-> <<>>]

\* a transfer that credits the receiver and leaves the sender's balance
token_transfer_crediting_only(ctx, asset, to, amount) ==
    IF ~ctx.ok THEN ctx
    ELSE IF amount < 0 \/ ctx.bal[asset][Escrow] < amount
         THEN [ctx EXCEPT !.ok = FALSE]
         ELSE [ok |-> TRUE,
               bal |-> [ctx.bal EXCEPT ![asset][to] = @ + amount],
               log |-> Append(ctx.log, <<asset, to, amount>>)]

token_transfer(ctx, asset, to, amount) ==
    IF ~ctx.ok THEN ctx
    ELSE IF amount < 0 \/ ctx.bal[asset][Escrow] < amount
         THEN [ctx EXCEPT !.ok = FALSE]
         ELSE [ok |-> TRUE,
               bal |-> [ctx.bal EXCEPT ![asset][Escrow] = @ - amount,
                                       ![asset][to] = @ + amount],
               log |-> Append(ctx.log, <<asset, to, amount>>)]

get_native_token_address == NativeToken

is_native_token(token) == token = get_native_token_address

transfer_native(ctx, to, amount) ==
    token_transfer(ctx, get_native_token_address, to, amount)

transfer_tokens(ctx, token, to, amount) ==
    IF is_native_token(token)
    THEN transfer_native(ctx, to, amount)
    ELSE token_transfer(ctx, token, to, amount)

(***************************************************************************)
(* Outcome of a call in the current state: the error, and the storage      *)
(* and balances it leaves.  A failed call leaves everything as it was      *)
(* and publishes nothing.                                                  *)
(***************************************************************************)
Fail(e) == [err |-> e, state |-> state, bal |-> balance, log |-> <<>>, events |-> <<>>]

\* a failed call keeping the transfers made before the failing one
DoneKeepingTransfers(ctx, s, ev) ==
    IF ctx.ok
    THEN [err |-> "Ok", state |-> s, bal |-> ctx.bal, log |-> ctx.log, events |-> <<ev>>]
    ELSE [Fail("TransferFailed") EXCEPT !.bal = ctx.bal]

Done(ctx, s, ev) ==
    IF ctx.ok
    THEN [err |-> "Ok", state |-> s, bal |-> ctx.bal, log |-> ctx.log, events |-> <<ev>>]
    ELSE Fail("TransferFailed")

\* withdraw paying the safety deposit to the taker instead of the maker
WithdrawPayoutDepositToTaker(im, s) ==
    LET t1 == transfer_tokens(Ctx(balance), im.token, im.taker, im.amount)
        t2 == IF im.safety_deposit > 0
              THEN transfer_native(t1, im.taker, im.safety_deposit)
              ELSE t1
    IN  Done(t2, Withdrawn, emit_secret_revealed(s))

\* lib.rs withdraw, lines 100-112
WithdrawPayout(im, s) ==
    LET t1 == transfer_tokens(Ctx(balance), im.token, im.taker, im.amount)
        t2 == IF im.safety_deposit > 0
              THEN transfer_native(t1, im.maker, im.safety_deposit)
              ELSE t1
    IN  Done(t2, Withdrawn, emit_secret_revealed(s))

\* withdraw without its state guard
WithdrawOutcomeNoStateGuard(submitter, auth, s) ==
    IF ~is_initialized THEN Fail("ImmutablesNotInitialized")
    ELSE IF Sha256(s) # immutables.hashlock THEN Fail("InvalidSecret")
    ELSE IF ~can_withdraw(immutables.timelocks, FALSE) THEN Fail("TimelockNotExpired")
    ELSE WithdrawPayout(immutables, s)

\* withdraw checking the timelock before the secret
WithdrawOutcomeTimelockFirst(submitter, auth, s) ==
    IF get_state # Active THEN Fail("InvalidState")
    ELSE IF ~is_initialized THEN Fail("ImmutablesNotInitialized")
    ELSE IF ~can_withdraw(immutables.timelocks, FALSE) THEN Fail("TimelockNotExpired")
    ELSE IF Sha256(s) # immutables.hashlock THEN Fail("InvalidSecret")
    ELSE WithdrawPayout(immutables, s)

\* withdraw requiring the submitter's authorization, as cancel does
WithdrawOutcomeRequiringAuth(submitter, auth, s) ==
    IF ~auth THEN Fail("AuthFailed")
    ELSE IF get_state # Active THEN Fail("InvalidState")
    ELSE IF ~is_initialized THEN Fail("ImmutablesNotInitialized")
    ELSE IF Sha256(s) # immutables.hashlock THEN Fail("InvalidSecret")
    ELSE IF ~can_withdraw(immutables.timelocks, FALSE) THEN Fail("TimelockNotExpired")
    ELSE WithdrawPayout(immutables, s)

\* withdraw comparing the secret before it reads the state
WithdrawOutcomeSecretFirst(submitter, auth, s) ==
    IF ~is_initialized THEN Fail("ImmutablesNotInitialized")
    ELSE IF Sha256(s) # immutables.hashlock THEN Fail("InvalidSecret")
    ELSE IF get_state # Active THEN Fail("InvalidState")
    ELSE IF ~can_withdraw(immutables.timelocks, FALSE) THEN Fail("TimelockNotExpired")
    ELSE WithdrawPayout(immutables, s)

\* lib.rs withdraw(secret, _unwrap_native).  submitter is the account that
\* submits the call and auth whether it signed: the code reads neither.
WithdrawOutcome(submitter, auth, s) ==
    IF get_state # Active THEN Fail("InvalidState")
    ELSE IF ~is_initialized THEN Fail("ImmutablesNotInitialized")
    ELSE IF Sha256(s) # immutables.hashlock THEN Fail("InvalidSecret")
    ELSE IF ~can_withdraw(immutables.timelocks, FALSE) THEN Fail("TimelockNotExpired")
    ELSE WithdrawPayout(immutables, s)

\* cancel returning the principal to the taker instead of the maker
CancelPayoutToTaker(im) ==
    LET t1 == transfer_tokens(Ctx(balance), im.token, im.taker, im.amount)
        t2 == IF im.safety_deposit > 0
              THEN transfer_native(t1, im.taker, im.safety_deposit)
              ELSE t1
    IN  Done(t2, Cancelled, emit_escrow_cancelled)

\* lib.rs cancel, lines 134-146
CancelPayout(im) ==
    LET t1 == transfer_tokens(Ctx(balance), im.token, im.maker, im.amount)
        t2 == IF im.safety_deposit > 0
              THEN transfer_native(t1, im.taker, im.safety_deposit)
              ELSE t1
    IN  Done(t2, Cancelled, emit_escrow_cancelled)

\* cancel without its state guard
CancelOutcomeNoStateGuard(c, auth) ==
    IF ~auth THEN Fail("AuthFailed")
    ELSE IF ~is_initialized THEN Fail("ImmutablesNotInitialized")
    ELSE IF ~can_cancel(immutables.timelocks, c, immutables.maker, immutables.taker)
         THEN Fail("CannotCancel")
    ELSE CancelPayout(immutables)

\* lib.rs cancel(caller); auth: whether c authorized the call (require_auth)
CancelOutcome(c, auth) ==
    IF ~auth THEN Fail("AuthFailed")
    ELSE IF get_state # Active THEN Fail("InvalidState")
    ELSE IF ~is_initialized THEN Fail("ImmutablesNotInitialized")
    ELSE IF ~can_cancel(immutables.timelocks, c, immutables.maker, immutables.taker)
         THEN Fail("CannotCancel")
    ELSE CancelPayout(immutables)

\* public_withdraw paying the principal to the taker, as withdraw does
PublicWithdrawPayoutToTaker(im, c, s) ==
    LET t1 == transfer_tokens(Ctx(balance), im.token, im.taker, im.amount)
        t2 == IF im.safety_deposit > 0
              THEN transfer_native(
                       transfer_native(t1, im.maker, im.safety_deposit \div 2),
                       im.taker, im.safety_deposit \div 2)
              ELSE t1
    IN  Done(t2, Withdrawn, emit_secret_revealed(s))

\* lib.rs public_withdraw, lines 176-186
PublicWithdrawPayout(im, c, s) ==
    LET t1 == transfer_tokens(Ctx(balance), im.token, c, im.amount)
        t2 == IF im.safety_deposit > 0
              THEN transfer_native(
                       transfer_native(t1, im.maker, im.safety_deposit \div 2),
                       im.taker, im.safety_deposit \div 2)
              ELSE t1
    IN  Done(t2, Withdrawn, emit_secret_revealed(s))

\* public_withdraw without the comparison of the secret's hash
PublicWithdrawOutcomeNoSecretCheck(c, auth, s) ==
    IF ~auth THEN Fail("AuthFailed")
    ELSE IF get_state # Active THEN Fail("InvalidState")
    ELSE IF ~is_initialized THEN Fail("ImmutablesNotInitialized")
    ELSE IF ~can_withdraw(immutables.timelocks, TRUE) THEN Fail("TimelockNotExpired")
    ELSE PublicWithdrawPayout(immutables, c, s)

\* lib.rs public_withdraw(secret, caller)
PublicWithdrawOutcome(c, auth, s) ==
    IF ~auth THEN Fail("AuthFailed")
    ELSE IF get_state # Active THEN Fail("InvalidState")
    ELSE IF ~is_initialized THEN Fail("ImmutablesNotInitialized")
    ELSE IF Sha256(s) # immutables.hashlock THEN Fail("InvalidSecret")
    ELSE IF ~can_withdraw(immutables.timelocks, TRUE) THEN Fail("TimelockNotExpired")
    ELSE PublicWithdrawPayout(immutables, c, s)

(***************************************************************************)
(* Actions.                                                                *)
(***************************************************************************)
\* a call on the escrow instance returning r; the factory is not involved
Returns(o, e, r, log, ev) ==
    /\ op' = o
    /\ err' = e
    /\ ret' = r
    /\ transfers' = log
    /\ events' = ev
    /\ UNCHANGED factoryVars

Record(o, e, log, ev) == Returns(o, e, NoValue, log, ev)

Apply(o, out) ==
    /\ state' = out.state
    /\ balance' = out.bal
    /\ Record(o, out.err, out.log, out.events)
    /\ UNCHANGED <<immutables, now>>

Hashlocks == {Sha256(TestSecret)}
Amounts == 0..MaxAmount
Deposits == 0..MaxDeposit

\* env.current_contract_address() inside the escrow instance
current_contract_address == Escrow

\* lib.rs deploy run by the instance at address self whose storage holds the
\* record im and the state st: what the call returns and what it stores
deploy_overwriting(self, im, st, order_hash, hashlock, maker, taker, token, amount, safety_deposit, timelocks) ==
    [err |-> "Ok", ret |-> self,
     immutables |-> Immutables(order_hash, hashlock, maker, taker, token, amount,
                               safety_deposit, timelocks),
     state |-> Active,
     events |-> <<emit_escrow_created(order_hash, maker, taker)>>]

deploy_swapping_parties(self, im, st, order_hash, hashlock, maker, taker, token, amount, safety_deposit, timelocks) ==
    IF im.initialized
    THEN [err |-> "AlreadyInitialized", ret |-> NoValue, immutables |-> im,
          state |-> st, events |-> <<>>]
    ELSE [err |-> "Ok", ret |-> self,
          immutables |-> Immutables(order_hash, hashlock, taker, maker, token, amount,
                                    safety_deposit, timelocks),
          state |-> Active,
          events |-> <<emit_escrow_created(order_hash, maker, taker)>>]

deploy(self, im, st, order_hash, hashlock, maker, taker, token, amount, safety_deposit, timelocks) ==
    IF im.initialized
    THEN [err |-> "AlreadyInitialized", ret |-> NoValue, immutables |-> im,
          state |-> st, events |-> <<>>]
    ELSE [err |-> "Ok", ret |-> self,
          immutables |-> Immutables(order_hash, hashlock, maker, taker, token, amount,
                                    safety_deposit, timelocks),
          state |-> Active,
          events |-> <<emit_escrow_created(order_hash, maker, taker)>>]

\* deploy called on the escrow instance of the model
DeployOutcome(order_hash, hashlock, maker, taker, token, amount, safety_deposit, timelocks) ==
    deploy(current_contract_address, immutables, state, order_hash, hashlock, maker,
           taker, token, amount, safety_deposit, timelocks)

ApplyDeploy(out) ==
    /\ immutables' = out.immutables
    /\ state' = out.state
    /\ Returns("deploy", out.err, out.ret, <<>>, out.events)
    /\ UNCHANGED <<now, balance>>

\* the terms are enumerated on an instance without a record only: with a
\* record the call fails whatever the terms
Deploy ==
    \E hashlock \in Hashlocks, token \in Assets, amount \in Amounts,
       safety_deposit \in Deposits, timelocks \in TimelockChoices :
        /\ is_initialized =>
               /\ token = NativeToken /\ amount = 0 /\ safety_deposit = 0
               /\ timelocks = Zero64
        /\ ApplyDeploy(DeployOutcome(TestOrderHash, hashlock, Maker, Taker, token,
                                     amount, safety_deposit, timelocks))

Withdraw ==
    \E submitter \in Parties, auth \in BOOLEAN, s \in Secrets :
        Apply("withdraw", WithdrawOutcome(submitter, auth, s))

Cancel ==
    \E c \in Parties, auth \in BOOLEAN :
        Apply("cancel", CancelOutcome(c, auth))

PublicWithdraw ==
    \E c \in Parties, auth \in BOOLEAN, s \in Secrets :
        Apply("public_withdraw", PublicWithdrawOutcome(c, auth, s))

\* test.rs token_client.transfer(&maker, &contract_id, &amount): the maker
\* sends the principal, or the safety deposit, of the terms to the escrow
Fund ==
    \E kind \in {"principal", "deposit"} :
        LET asset == IF kind = "principal" THEN immutables.token ELSE NativeToken
            amount == IF kind = "principal" THEN immutables.amount
                      ELSE immutables.safety_deposit
        IN  /\ is_initialized
            /\ amount > 0
            /\ balance[asset][Maker] >= amount
            /\ balance' = [balance EXCEPT ![asset][Maker] = @ - amount,
                                          ![asset][Escrow] = @ + amount]
            /\ Record("fund", "Ok", <<>>, <<>>)
            /\ UNCHANGED <<immutables, state, now>>

\* a clock that cancels an Active escrow on reaching its last threshold
AdvanceClockCancelling ==
    \E t \in Times :
        /\ t > now
        /\ now' = t
        /\ state' = IF /\ is_initialized
                       /\ get_state = Active
                       /\ t >= get_timelock(immutables.timelocks, DST_CANCELLATION_TIMELOCK)
                    THEN Cancelled ELSE state
        /\ Record("advance_clock", "Ok", <<>>, <<>>)
        /\ UNCHANGED <<immutables, balance>>

\* the ledger closes: the clock moves forward
AdvanceClock ==
    \E t \in Times :
        /\ t > now
        /\ now' = t
        /\ Record("advance_clock", "Ok", <<>>, <<>>)
        /\ UNCHANGED <<immutables, state, balance>>

Init ==
    /\ immutables = NoImmutables
    /\ state = NoState
    /\ now = 0
    /\ balance = [a \in Assets |->
                    [p \in Accounts |-> IF p = Maker THEN MaxAmount + MaxDeposit ELSE 0]]
    /\ op = "register"
    /\ err = "Ok"
    /\ ret = NoValue
    /\ transfers = <<>>
    /\ events = <<>>
    /\ admin = NoValue
    /\ htlc_hash = NoValue
    /\ nonce = NoValue
    /\ deployed = <<>>
    /\ instances = <<>>

Next ==
    \/ Deploy
    \/ Withdraw
    \/ Cancel
    \/ PublicWithdraw
    \/ Fund
    \/ AdvanceClock

Spec == Init /\ [][Next]_vars

(***************************************************************************)
(* The escrow with a ledger that keeps closing and a caller that keeps     *)
(* calling cancel with its signature.                                      *)
(***************************************************************************)
CancelAttempt == \E c \in Parties : Apply("cancel", CancelOutcome(c, TRUE))

LiveSpec == Spec /\ WF_vars(AdvanceClock) /\ WF_vars(CancelAttempt)

(***************************************************************************)
(* The read accessors of the escrow (lib.rs get_immutables_hash,           *)
(* get_state, get_immutables).  auth is whether the submitter signed the   *)
(* call: the code reads no caller.  storage::get_immutables panics on an   *)
(* instance without a record, storage::get_state defaults to Active.       *)
(***************************************************************************)
Read(r) == [err |-> "Ok", ret |-> r]
ReadFail(e) == [err |-> e, ret |-> NoValue]

GetStateOutcome(auth) == Read(get_state)

\* get_immutables answering with an empty record where none is stored
GetImmutablesOutcomeDefaulting(auth) == Read(immutables)

GetImmutablesOutcome(auth) ==
    IF ~is_initialized THEN ReadFail("ImmutablesNotInitialized")
    ELSE Read(immutables)

\* get_immutables_hash answering on an Active escrow only
GetImmutablesHashOutcomeWhileActive(auth) ==
    IF ~is_initialized THEN ReadFail("ImmutablesNotInitialized")
    ELSE IF get_state # Active THEN ReadFail("InvalidState")
    ELSE Read(hash(immutables))

\* get_immutables_hash asking for the submitter's signature
GetImmutablesHashOutcomeRequiringAuth(auth) ==
    IF ~auth THEN ReadFail("AuthFailed")
    ELSE IF ~is_initialized THEN ReadFail("ImmutablesNotInitialized")
    ELSE Read(hash(immutables))

GetImmutablesHashOutcome(auth) ==
    IF ~is_initialized THEN ReadFail("ImmutablesNotInitialized")
    ELSE Read(hash(immutables))

ApplyRead(o, out) ==
    /\ Returns(o, out.err, out.ret, <<>>, <<>>)
    /\ UNCHANGED <<immutables, state, now, balance>>

GetState == \E auth \in BOOLEAN : ApplyRead("get_state", GetStateOutcome(auth))

GetImmutables ==
    \E auth \in BOOLEAN : ApplyRead("get_immutables", GetImmutablesOutcome(auth))

GetImmutablesHash ==
    \E auth \in BOOLEAN :
        ApplyRead("get_immutables_hash", GetImmutablesHashOutcome(auth))

\* the escrow with its read accessors
AccessNext ==
    \/ Deploy
    \/ Withdraw
    \/ Cancel
    \/ PublicWithdraw
    \/ Fund
    \/ AdvanceClock
    \/ GetState
    \/ GetImmutables
    \/ GetImmutablesHash

AccessSpec == Init /\ [][AccessNext]_vars

(***************************************************************************)
(* The escrow factory (stellar-fusion-factory, lib.rs): its instance       *)
(* storage ADMIN, HTLC_HASH and NONCE, its persistent registry             *)
(* (DEPLOYED, salt) -> address, and the contracts it has deployed.         *)
(***************************************************************************)
Factory == "factory"
Admin == "admin"
Outsider == "outsider"
Principals == {Admin, Outsider}
\* the authorizations an invocation carries: address.require_auth() passes
\* for the addresses in it and aborts the invocation for the others
AuthSets == SUBSET Principals

\* wasm hashes: the uploaded escrow contract, an uploaded contract without a
\* deploy function, and a hash under which no code was uploaded
EscrowWasm == "escrow_wasm"
OtherWasm == "other_wasm"
MissingWasm == "missing_wasm"
CodeRefs == {EscrowWasm, OtherWasm, MissingWasm}
Uploaded == {EscrowWasm, OtherWasm}

\* the salts a client passes to deploy_escrow
Salts == 1..MaxSalt
\* the swap terms a client passes to deploy_escrow
FactoryAmounts == {1, 2}
FactoryTerms ==
    {Immutables(TestOrderHash, Sha256(TestSecret), Maker, Taker, NativeToken, amount,
                0, Zero64) : amount \in FactoryAmounts}

\* env.deployer().with_current_contract(salt).deployed_address(): the address
\* is derived from the deploying contract and the salt alone
deployed_address(salt) == <<Factory, salt>>

\* a factory call that fails: the host keeps nothing of what it did
FactoryFail(e) ==
    [err |-> e, ret |-> NoValue, admin |-> admin, htlc_hash |-> htlc_hash,
     nonce |-> nonce, deployed |-> deployed, instances |-> instances, events |-> <<>>]

FactoryDone(r, ev) ==
    [err |-> "Ok", ret |-> r, admin |-> admin, htlc_hash |-> htlc_hash,
     nonce |-> nonce, deployed |-> deployed, instances |-> instances, events |-> ev]

initialize_overwriting(auths, new_admin, htlc_wasm_hash) ==
    IF new_admin \notin auths THEN FactoryFail("AuthFailed")
    ELSE [FactoryDone(NoValue, <<<<"initialized", new_admin, htlc_wasm_hash>>>>)
             EXCEPT !.admin = new_admin, !.htlc_hash = htlc_wasm_hash, !.nonce = 0]

initialize(auths, new_admin, htlc_wasm_hash) ==
    IF admin # NoValue THEN FactoryFail("AlreadyInitialized")
    ELSE IF new_admin \notin auths THEN FactoryFail("AuthFailed")
    ELSE [FactoryDone(NoValue, <<<<"initialized", new_admin, htlc_wasm_hash>>>>)
             EXCEPT !.admin = new_admin, !.htlc_hash = htlc_wasm_hash, !.nonce = 0]

update_htlc_hash_any_caller(auths, new_hash) ==
    IF admin = NoValue THEN FactoryFail("NotInitialized")
    ELSE [FactoryDone(NoValue, <<<<"htlc_hash_updated", new_hash>>>>)
             EXCEPT !.htlc_hash = new_hash]

\* update_htlc_hash starting a fresh registry for the new code
update_htlc_hash_resetting_registry(auths, new_hash) ==
    IF admin = NoValue THEN FactoryFail("NotInitialized")
    ELSE IF admin \notin auths THEN FactoryFail("AuthFailed")
    ELSE [FactoryDone(NoValue, <<<<"htlc_hash_updated", new_hash>>>>)
             EXCEPT !.htlc_hash = new_hash, !.deployed = <<>>]

update_htlc_hash(auths, new_hash) ==
    IF admin = NoValue THEN FactoryFail("NotInitialized")
    ELSE IF admin \notin auths THEN FactoryFail("AuthFailed")
    ELSE [FactoryDone(NoValue, <<<<"htlc_hash_updated", new_hash>>>>)
             EXCEPT !.htlc_hash = new_hash]

\* deployer().deploy_v2(wasm_hash, ()): the host aborts the invocation when no
\* code is uploaded under the hash or a contract already exists at the address
deploy_v2_address_from_code(salt, wasm_hash) ==
    IF wasm_hash \notin Uploaded \/ <<Factory, salt, wasm_hash>> \in DOMAIN instances
    THEN [err |-> "HostError"]
    ELSE [err |-> "Ok", ret |-> <<Factory, salt, wasm_hash>>,
          contract |-> [wasm |-> wasm_hash, immutables |-> NoImmutables, state |-> NoState]]

deploy_v2(salt, wasm_hash) ==
    IF wasm_hash \notin Uploaded \/ deployed_address(salt) \in DOMAIN instances
    THEN [err |-> "HostError"]
    ELSE [err |-> "Ok", ret |-> deployed_address(salt),
          contract |-> [wasm |-> wasm_hash, immutables |-> NoImmutables, state |-> NoState]]

\* env.invoke_contract(&escrow, "deploy", args): runs lib.rs deploy of the
\* escrow when that is the code of the contract; the host aborts the
\* invocation when the contract has no such function or the call fails
invoke_deploy(escrow, contract, im) ==
    IF contract.wasm # EscrowWasm THEN [err |-> "HostError"]
    ELSE LET out == deploy(escrow, contract.immutables, contract.state, im.order_hash,
                           im.hashlock, im.maker, im.taker, im.token, im.amount,
                           im.safety_deposit, im.timelocks)
         IN  IF out.err # "Ok" THEN [err |-> "HostError"]
             ELSE [err |-> "Ok", events |-> out.events,
                   contract |-> [contract EXCEPT !.immutables = out.immutables,
                                                 !.state = out.state]]

\* deploy_escrow without the look-up of the registry
deploy_escrow_unchecked(salt, im) ==
    IF htlc_hash = NoValue THEN FactoryFail("NotInitialized")
    ELSE LET made == deploy_v2(salt, htlc_hash)
         IN  IF made.err # "Ok" THEN FactoryFail(made.err)
             ELSE LET escrow == made.ret
                      init == invoke_deploy(escrow, made.contract, im)
                  IN  IF init.err # "Ok" THEN FactoryFail(init.err)
                      ELSE [FactoryDone(escrow,
                                 init.events \o
                                 <<<<"escrow_deployed", escrow, im.order_hash, salt>>>>)
                             EXCEPT !.deployed = (salt :> escrow) @@ deployed,
                                    !.instances = (escrow :> init.contract) @@ instances]

\* deploy_escrow falling back on the escrow code when none is configured
deploy_escrow_default_code(salt, im) ==
    IF salt \in DOMAIN deployed THEN FactoryFail("AlreadyDeployed")
    ELSE LET made == deploy_v2(salt, IF htlc_hash = NoValue THEN EscrowWasm ELSE htlc_hash)
         IN  IF made.err # "Ok" THEN FactoryFail(made.err)
             ELSE LET escrow == made.ret
                      init == invoke_deploy(escrow, made.contract, im)
                  IN  IF init.err # "Ok" THEN FactoryFail(init.err)
                      ELSE [FactoryDone(escrow,
                                 init.events \o
                                 <<<<"escrow_deployed", escrow, im.order_hash, salt>>>>)
                             EXCEPT !.deployed = (salt :> escrow) @@ deployed,
                                    !.instances = (escrow :> init.contract) @@ instances]

\* deploy_escrow whose registry entry and instance outlive a failed
\* initialisation of the instance
deploy_escrow_registering_first(salt, im) ==
    IF htlc_hash = NoValue THEN FactoryFail("NotInitialized")
    ELSE IF salt \in DOMAIN deployed THEN FactoryFail("AlreadyDeployed")
    ELSE LET made == deploy_v2(salt, htlc_hash)
         IN  IF made.err # "Ok" THEN FactoryFail(made.err)
             ELSE LET escrow == made.ret
                      init == invoke_deploy(escrow, made.contract, im)
                  IN  IF init.err # "Ok"
                      THEN [FactoryFail(init.err)
                               EXCEPT !.deployed = (salt :> escrow) @@ deployed,
                                      !.instances = (escrow :> made.contract) @@ instances]
                      ELSE [FactoryDone(escrow,
                                 init.events \o
                                 <<<<"escrow_deployed", escrow, im.order_hash, salt>>>>)
                             EXCEPT !.deployed = (salt :> escrow) @@ deployed,
                                    !.instances = (escrow :> init.contract) @@ instances]

\* lib.rs deploy_escrow; im holds the eight terms passed next to the salt
deploy_escrow(salt, im) ==
    IF htlc_hash = NoValue THEN FactoryFail("NotInitialized")
    ELSE IF salt \in DOMAIN deployed THEN FactoryFail("AlreadyDeployed")
    ELSE LET made == deploy_v2(salt, htlc_hash)
         IN  IF made.err # "Ok" THEN FactoryFail(made.err)
             ELSE LET escrow == made.ret
                      init == invoke_deploy(escrow, made.contract, im)
                  IN  IF init.err # "Ok" THEN FactoryFail(init.err)
                      ELSE [FactoryDone(escrow,
                                 init.events \o
                                 <<<<"escrow_deployed", escrow, im.order_hash, salt>>>>)
                             EXCEPT !.deployed = (salt :> escrow) @@ deployed,
                                    !.instances = (escrow :> init.contract) @@ instances]

\* calculate_escrow_address without the look-up of the registry
calculate_escrow_address_stale(salt) ==
    IF htlc_hash = NoValue THEN FactoryFail("NotInitialized")
    ELSE FactoryDone(deployed_address(salt), <<>>)

\* calculate_escrow_address reserving the address it predicts
calculate_escrow_address_reserving(salt) ==
    IF htlc_hash = NoValue THEN FactoryFail("NotInitialized")
    ELSE IF salt \in DOMAIN deployed THEN FactoryFail("AlreadyDeployed")
    ELSE [FactoryDone(deployed_address(salt), <<>>)
             EXCEPT !.deployed = (salt :> deployed_address(salt)) @@ deployed]

calculate_escrow_address(salt) ==
    IF htlc_hash = NoValue THEN FactoryFail("NotInitialized")
    ELSE IF salt \in DOMAIN deployed THEN FactoryFail("AlreadyDeployed")
    ELSE FactoryDone(deployed_address(salt), <<>>)

get_htlc_hash ==
    IF htlc_hash = NoValue THEN FactoryFail("NotInitialized")
    ELSE FactoryDone(htlc_hash, <<>>)

get_admin ==
    IF admin = NoValue THEN FactoryFail("NotInitialized")
    ELSE FactoryDone(admin, <<>>)

is_deployed(salt) == FactoryDone(salt \in DOMAIN deployed, <<>>)

\* a call on the factory: its result, and what the host commits
FactoryApply(o, out) ==
    /\ op' = o
    /\ err' = out.err
    /\ ret' = out.ret
    /\ events' = out.events
    /\ admin' = out.admin
    /\ htlc_hash' = out.htlc_hash
    /\ nonce' = out.nonce
    /\ deployed' = out.deployed
    /\ instances' = out.instances
    /\ UNCHANGED <<escrowVars, now>>

Initialize ==
    \E auths \in AuthSets, new_admin \in Principals, htlc_wasm_hash \in CodeRefs :
        FactoryApply("initialize", initialize(auths, new_admin, htlc_wasm_hash))

UpdateHtlcHash ==
    \E auths \in AuthSets, new_hash \in CodeRefs :
        FactoryApply("update_htlc_hash", update_htlc_hash(auths, new_hash))

DeployEscrow ==
    \E salt \in Salts, im \in FactoryTerms :
        FactoryApply("deploy_escrow", deploy_escrow(salt, im))

CalculateEscrowAddress ==
    \E salt \in Salts :
        FactoryApply("calculate_escrow_address", calculate_escrow_address(salt))

GetHtlcHash == FactoryApply("get_htlc_hash", get_htlc_hash)

GetAdmin == FactoryApply("get_admin", get_admin)

IsDeployed == \E salt \in Salts : FactoryApply("is_deployed", is_deployed(salt))

FactoryNext ==
    \/ Initialize
    \/ UpdateHtlcHash
    \/ DeployEscrow
    \/ CalculateEscrowAddress
    \/ GetHtlcHash
    \/ GetAdmin
    \/ IsDeployed
    \/ AdvanceClock

FactorySpec == Init /\ [][FactoryNext]_vars

(***************************************************************************)
(* The factory together with the escrow contracts it deployed: next to the *)
(* factory's own entry points, the entry points of every deployed escrow   *)
(* are called.                                                             *)
(***************************************************************************)
\* the entry points of the escrow contract that write its storage
EscrowCalls == {"deploy", "withdraw", "public_withdraw", "cancel"}

\* a call of stellar-fusion lib.rs on a contract the factory deployed: the
\* guards of the entry point run on that contract's own storage; its token
\* balances are not followed here, so whether its payouts go through (paid)
\* is an input.  Only the contract's own storage can change.
instance_call(call, self, contract, c, auth, s, paid) ==
    LET im == contract.immutables
        st == IF contract.state = NoState THEN Active ELSE contract.state
        failed(e) == [err |-> e, ret |-> NoValue, contract |-> contract, events |-> <<>>]
    IN  IF call = "deploy"
        THEN LET out == deploy(self, im, contract.state, im.order_hash, im.hashlock,
                               im.maker, im.taker, im.token, im.amount,
                               im.safety_deposit, im.timelocks)
             IN  [err |-> out.err, ret |-> out.ret, events |-> out.events,
                  contract |-> [contract EXCEPT !.immutables = out.immutables,
                                                !.state = out.state]]
        ELSE IF call # "withdraw" /\ ~auth THEN failed("AuthFailed")
        ELSE IF st # Active THEN failed("InvalidState")
        ELSE IF ~im.initialized THEN failed("ImmutablesNotInitialized")
        ELSE IF call # "cancel" /\ Sha256(s) # im.hashlock THEN failed("InvalidSecret")
        ELSE IF call = "withdraw" /\ ~can_withdraw(im.timelocks, FALSE)
             THEN failed("TimelockNotExpired")
        ELSE IF call = "public_withdraw" /\ ~can_withdraw(im.timelocks, TRUE)
             THEN failed("TimelockNotExpired")
        ELSE IF call = "cancel" /\ ~can_cancel(im.timelocks, c, im.maker, im.taker)
             THEN failed("CannotCancel")
        ELSE IF ~paid THEN failed("TransferFailed")
        ELSE [err |-> "Ok", ret |-> NoValue,
              contract |-> [contract EXCEPT
                               !.state = IF call = "cancel" THEN Cancelled ELSE Withdrawn],
              events |-> IF call = "cancel" THEN <<emit_escrow_cancelled>>
                         ELSE <<emit_secret_revealed(s)>>]

\* each entry point is called with the inputs it reads
InstanceCall ==
    \E a \in DOMAIN instances, call \in EscrowCalls :
        \E c \in IF call = "cancel" THEN {Maker, Relayer} ELSE {Relayer},
           auth \in IF call \in {"cancel", "public_withdraw"} THEN BOOLEAN ELSE {FALSE},
           s \in IF call \in {"withdraw", "public_withdraw"}
                 THEN {TestSecret, MaxSecret} ELSE {TestSecret},
           paid \in IF call = "deploy" THEN {TRUE} ELSE BOOLEAN :
            LET out == instance_call(call, a, instances[a], c, auth, s, paid)
            IN  FactoryApply(call, [FactoryDone(out.ret, out.events) EXCEPT
                                       !.err = out.err,
                                       !.instances = [instances EXCEPT ![a] = out.contract]])

\* the ledger clock stands still here: the terms the factory is given have
\* all thresholds at 0, so no guard of a deployed escrow depends on it
SystemNext ==
    \/ Initialize
    \/ UpdateHtlcHash
    \/ DeployEscrow
    \/ CalculateEscrowAddress
    \/ GetHtlcHash
    \/ GetAdmin
    \/ IsDeployed
    \/ InstanceCall

SystemSpec == Init /\ [][SystemNext]_vars

(***************************************************************************)
(* Vocabulary of the properties.                                           *)
(***************************************************************************)
Terminal == {Withdrawn, Cancelled}

Threshold(index) == get_timelock(immutables.timelocks, index)

\* the escrow holds the principal and the safety deposit of its terms
Funded ==
    IF immutables.token = NativeToken
    THEN balance[NativeToken][Escrow] >= immutables.amount + immutables.safety_deposit
    ELSE /\ balance[immutables.token][Escrow] >= immutables.amount
         /\ balance[NativeToken][Escrow] >= immutables.safety_deposit

\* what a payment of amount of asset to account `to` adds to [asset1][acct]
Credit(asset1, acct, asset, to, amount) ==
    IF asset1 = asset /\ acct = to THEN amount ELSE 0

\* what it takes from the escrow's holding of asset1
Debit(asset1, asset, amount) == IF asset1 = asset THEN amount ELSE 0

\* after equals before changed by two payments out of the escrow
PaidOut(before, after, asset1, to1, amount1, asset2, to2, amount2) ==
    \A a \in Assets :
        /\ after[a][Escrow] =
               before[a][Escrow] - Debit(a, asset1, amount1) - Debit(a, asset2, amount2)
        /\ \A p \in Parties :
               after[a][p] = before[a][p] + Credit(a, p, asset1, to1, amount1)
                                          + Credit(a, p, asset2, to2, amount2)

(***************************************************************************)
(* C1 as stated.  Once the state is Withdrawn or Cancelled, every later    *)
(* withdraw, public_withdraw or cancel call, whatever the caller, the      *)
(* secret and the clock, fails with InvalidState.                          *)
(***************************************************************************)
C1_TerminalCallsFailInvalidState ==
    get_state \in Terminal =>
        \A c \in Parties, a \in BOOLEAN, s \in Secrets :
            /\ WithdrawOutcome(c, a, s).err = "InvalidState"
            /\ PublicWithdrawOutcome(c, a, s).err = "InvalidState"
            /\ CancelOutcome(c, a).err = "InvalidState"

\* the calls that can be made in a terminal state, and what they return
C1_TerminalCalls ==
    get_state \in Terminal =>
        \A c \in Parties, a \in BOOLEAN, s \in Secrets :
            LET w == WithdrawOutcome(c, a, s)
                pw == PublicWithdrawOutcome(c, a, s)
                ca == CancelOutcome(c, a)
            IN  /\ w.err = "InvalidState"
                /\ pw.err = (IF a THEN "InvalidState" ELSE "AuthFailed")
                /\ ca.err = (IF a THEN "InvalidState" ELSE "AuthFailed")
                /\ \A out \in {w, pw, ca} : out.state = state /\ out.bal = balance

\* a step taken in a terminal state
C1_TerminalStep ==
    get_state \in Terminal =>
        /\ state' = state
        /\ (op' \in {"withdraw", "public_withdraw", "cancel"} =>
               err' \in {"InvalidState", "AuthFailed"} /\ balance' = balance)

(***************************************************************************)
(* C1 as amended.  Once the state is Withdrawn or Cancelled it never       *)
(* changes again (so it never returns to Active); every later withdraw     *)
(* fails with InvalidState; every later public_withdraw or cancel fails    *)
(* with InvalidState when the caller's identity proof is present and at    *)
(* the authentication gate when it is not; none of them moves a balance.   *)
(***************************************************************************)
C1_TerminalIsAbsorbing == []C1_TerminalCalls /\ [][C1_TerminalStep]_vars

C1_Witness ==
    /\ get_state \in Terminal
    /\ op \in {"withdraw", "public_withdraw", "cancel"}
    /\ err = "InvalidState"

\* no withdraw or public_withdraw call has an effect without the secret
C2_SecretNeeded ==
    \A c \in Parties, a \in BOOLEAN, s \in Secrets :
        \A out \in {WithdrawOutcome(c, a, s), PublicWithdrawOutcome(c, a, s)} :
            (out.err = "Ok" \/ out.state # state \/ out.bal # balance) =>
                (is_initialized /\ Sha256(s) = immutables.hashlock)

\* a step that makes the state Withdrawn, or that moves funds out of the escrow
C2_WithdrawnStep ==
    /\ (state' = Withdrawn /\ state # Withdrawn) =>
           /\ op' \in {"withdraw", "public_withdraw"}
           /\ err' = "Ok"
           /\ \E s \in Secrets :
                 /\ events' = <<emit_secret_revealed(s)>>
                 /\ Sha256(s) = immutables.hashlock
    /\ (balance' # balance /\ op' # "fund") =>
           \/ /\ op' = "cancel"
              /\ state' = Cancelled
              /\ transfers'[1][2] = immutables.maker
           \/ /\ op' \in {"withdraw", "public_withdraw"}
              /\ state' = Withdrawn /\ state # Withdrawn

(***************************************************************************)
(* C2.  The state becomes Withdrawn only in a successful withdraw or       *)
(* public_withdraw call whose secret hashes to the hashlock; no call,      *)
(* public_withdraw in the public window included, pays the principal to    *)
(* the taker or to the caller without such a secret supplied in that call. *)
(***************************************************************************)
C2_WithdrawnOnlyWithSecret == []C2_SecretNeeded /\ [][C2_WithdrawnStep]_vars

C2_Witness ==
    /\ op = "public_withdraw"
    /\ err = "Ok"
    /\ state = Withdrawn
    /\ events = <<emit_secret_revealed(TestSecret)>>
    /\ immutables.amount > 0
    /\ now >= Threshold(DST_PUBLIC_WITHDRAWAL_TIMELOCK)
    /\ Threshold(DST_PUBLIC_WITHDRAWAL_TIMELOCK) > 0

\* what withdraw returns for a wrong secret on an Active escrow
C3_WrongSecretOutcome ==
    (is_initialized /\ get_state = Active) =>
        \A c \in Parties, a \in BOOLEAN, s \in Secrets :
            Sha256(s) # immutables.hashlock =>
                LET out == WithdrawOutcome(c, a, s)
                IN  /\ out.err = "InvalidSecret"
                    /\ out.state = state
                    /\ out.bal = balance
                    /\ out.log = <<>>

\* a withdraw step that failed with InvalidSecret
C3_WrongSecretStep ==
    (op' = "withdraw" /\ err' = "InvalidSecret") =>
        /\ is_initialized
        /\ get_state = Active
        /\ state' = state
        /\ balance' = balance
        /\ immutables' = immutables

(***************************************************************************)
(* C3.  On an Active escrow, withdraw with a secret whose hash differs     *)
(* from the hashlock fails with InvalidSecret and leaves the state Active  *)
(* and every balance unchanged.                                            *)
(***************************************************************************)
C3_WrongSecretRejected == []C3_WrongSecretOutcome /\ [][C3_WrongSecretStep]_vars

C3_Witness ==
    /\ op = "withdraw"
    /\ err = "InvalidSecret"
    /\ is_initialized
    /\ get_state = Active
    /\ immutables.amount > 0
    /\ Funded

\* a withdraw step that succeeded
C4_WithdrawStep ==
    (op' = "withdraw" /\ err' = "Ok") =>
        LET im == immutables
        IN  /\ is_initialized /\ get_state = Active
            /\ immutables' = im
            /\ state' = Withdrawn
            /\ PaidOut(balance, balance', im.token, im.taker, im.amount,
                       NativeToken, im.maker, im.safety_deposit)
            /\ transfers' = IF im.safety_deposit > 0
                            THEN << <<im.token, im.taker, im.amount>>,
                                    <<NativeToken, im.maker, im.safety_deposit>> >>
                            ELSE << <<im.token, im.taker, im.amount>> >>
            /\ (im.safety_deposit = 0 /\ balance[im.token][Escrow] = im.amount) =>
                   /\ balance'[im.token][Escrow] = 0
                   /\ balance'[im.token][im.taker] =
                          balance[im.token][im.taker] + im.amount

(***************************************************************************)
(* C4.  A successful withdraw moves exactly amount of token from the       *)
(* escrow to the taker, refunds the whole safety deposit (when > 0) in the *)
(* native asset to the maker and sets the state to Withdrawn; with the     *)
(* amount funded and no safety deposit the escrow's token balance is then  *)
(* 0 and the taker's has grown by amount.                                  *)
(***************************************************************************)
C4_WithdrawEffects == [][C4_WithdrawStep]_vars

C4_Witness ==
    /\ op = "withdraw"
    /\ err = "Ok"
    /\ state = Withdrawn
    /\ immutables.amount > 0
    /\ immutables.safety_deposit > 0
    /\ immutables.token # NativeToken
    /\ balance[immutables.token][Taker] = immutables.amount
    /\ balance[NativeToken][Escrow] = 0

(***************************************************************************)
(* C5.  Timelock gating of withdraw: with the timelocks of the tests,      *)
(* (2000 << 32) | (3000 << 40), withdraw with the correct secret fails     *)
(* with TimelockNotExpired at now = 1000 and leaves the state Active, and  *)
(* the same call succeeds once the clock is at 2500.                       *)
(***************************************************************************)
C5_TestTimelockGatesWithdraw ==
    (/\ is_initialized
     /\ immutables.timelocks = TestTimelocks
     /\ immutables.amount > 0
     /\ get_state = Active
     /\ Funded) =>
        \A c \in Parties, a \in BOOLEAN :
            LET out == WithdrawOutcome(c, a, TestSecret)
            IN  /\ now = TestCreateTime =>
                       out.err = "TimelockNotExpired" /\ out.state = state
                /\ now = TestLaterTime =>
                       out.err = "Ok" /\ out.state = Withdrawn

\* scenario C: timelocks all zero, the amount funded, cancel(maker)
C6_ZeroTimelocksCancel ==
    (/\ is_initialized
     /\ get_state = Active
     /\ immutables.timelocks = Zero64
     /\ Funded) =>
        LET out == CancelOutcome(immutables.maker, TRUE)
        IN  /\ out.err = "Ok"
            /\ out.state = Cancelled
            /\ out.bal[immutables.token][immutables.maker] =
                   balance[immutables.token][immutables.maker] + immutables.amount

\* a cancel step that succeeded
C6_CancelStep ==
    (op' = "cancel" /\ err' = "Ok") =>
        LET im == immutables
        IN  /\ is_initialized /\ get_state = Active
            /\ immutables' = im
            /\ state' = Cancelled
            /\ PaidOut(balance, balance', im.token, im.maker, im.amount,
                       NativeToken, im.taker, im.safety_deposit)
            /\ transfers' = IF im.safety_deposit > 0
                            THEN << <<im.token, im.maker, im.amount>>,
                                    <<NativeToken, im.taker, im.safety_deposit>> >>
                            ELSE << <<im.token, im.maker, im.amount>> >>

(***************************************************************************)
(* C6.  A successful cancel returns exactly amount of token from the       *)
(* escrow to the maker, pays the whole safety deposit (when > 0) in the    *)
(* native asset to the taker and sets the state to Cancelled; with         *)
(* timelocks all zero and the amount funded, cancel(maker) succeeds and    *)
(* restores the maker's balance by amount.                                 *)
(***************************************************************************)
C6_CancelEffects == []C6_ZeroTimelocksCancel /\ [][C6_CancelStep]_vars

C6_Witness ==
    /\ op = "cancel"
    /\ err = "Ok"
    /\ state = Cancelled
    /\ immutables.amount > 0
    /\ immutables.safety_deposit > 0
    /\ immutables.token # NativeToken
    /\ balance[immutables.token][Maker] = MaxAmount + MaxDeposit
    /\ balance[NativeToken][Taker] = immutables.safety_deposit

\* the condition of section 4.2 under which a cancel by c is permitted
CancelAllowed(c) ==
    \/ now >= Threshold(DST_CANCELLATION_TIMELOCK)
    \/ /\ now >= Threshold(SRC_CANCELLATION_TIMELOCK)
       /\ c \in {immutables.maker, immutables.taker}

(***************************************************************************)
(* C7 as stated.  On an Active escrow cancel(caller) succeeds only if      *)
(* now >= threshold(DST_CANCELLATION), or now >= threshold(SRC_CANCELLATION)*)
(* and caller is maker or taker; in every other case it fails with         *)
(* CannotCancel and leaves state and balances unchanged.                   *)
(***************************************************************************)
C7_CancelAuthorization ==
    (is_initialized /\ get_state = Active) =>
        \A c \in Parties, a \in BOOLEAN :
            LET out == CancelOutcome(c, a)
            IN  /\ out.err = "Ok" => CancelAllowed(c)
                /\ ~CancelAllowed(c) =>
                       /\ out.err = "CannotCancel"
                       /\ out.state = state
                       /\ out.bal = balance

(***************************************************************************)
(* C7 as amended.  On an Active escrow cancel(caller) succeeds only if the *)
(* caller's identity proof is present and now >= threshold(DST_CANCELLATION)*)
(* or now >= threshold(SRC_CANCELLATION) and caller is maker or taker; in  *)
(* every other case it fails, with CannotCancel when the proof is present  *)
(* and at the authentication gate when it is not, and leaves state and     *)
(* balances unchanged.                                                     *)
(***************************************************************************)
C7_CancelAuthorizationWithProof ==
    (is_initialized /\ get_state = Active) =>
        \A c \in Parties, a \in BOOLEAN :
            LET out == CancelOutcome(c, a)
            IN  /\ out.err = "Ok" => (a /\ CancelAllowed(c))
                /\ ~CancelAllowed(c) =>
                       /\ out.err = (IF a THEN "CannotCancel" ELSE "AuthFailed")
                       /\ out.state = state
                       /\ out.bal = balance
                /\ (a /\ CancelAllowed(c) /\ Funded) => out.err = "Ok"

C7_Witness ==
    /\ op = "cancel"
    /\ err = "CannotCancel"
    /\ is_initialized
    /\ get_state = Active
    /\ Funded
    /\ now >= Threshold(SRC_CANCELLATION_TIMELOCK)
    /\ now < Threshold(DST_CANCELLATION_TIMELOCK)

(***************************************************************************)
(* C8.  withdraw is a bearer operation: it checks no caller identity, and  *)
(* two calls that differ only in who submits them have the same outcome:   *)
(* the same error or success, the principal to the taker and the safety    *)
(* deposit to the maker.                                                   *)
(***************************************************************************)
C8_WithdrawIgnoresSubmitter ==
    \A s \in Secrets :
        \A c1 \in Parties, c2 \in Parties, a1 \in BOOLEAN, a2 \in BOOLEAN :
            LET out == WithdrawOutcome(c1, a1, s)
            IN  /\ out = WithdrawOutcome(c2, a2, s)
                /\ out.err # "AuthFailed"
                /\ out.err = "Ok" =>
                       /\ out.log[1][2] = immutables.taker
                       /\ Len(out.log) = (IF immutables.safety_deposit > 0 THEN 2 ELSE 1)
                       /\ immutables.safety_deposit > 0 =>
                              out.log[2][2] = immutables.maker

C8_Witness ==
    /\ op = "withdraw"
    /\ err = "Ok"
    /\ immutables.safety_deposit > 0
    /\ immutables.amount > 0
    /\ transfers[1][2] = Taker
    /\ transfers[2][2] = Maker
    /\ balance[immutables.token][Relayer] = 0

(***************************************************************************)
(* C9.  public_withdraw(secret, caller) succeeds only when the caller has  *)
(* produced an identity proof, the state is Active, the secret hashes to   *)
(* the hashlock and now >= threshold(DST_PUBLIC_WITHDRAWAL), failing with  *)
(* TimelockNotExpired before that threshold; on success the principal goes *)
(* to the caller, not to the taker, and the state becomes Withdrawn.       *)
(***************************************************************************)
C9_PublicWithdrawGuards ==
    \A c \in Parties, a \in BOOLEAN, s \in Secrets :
        LET out == PublicWithdrawOutcome(c, a, s)
            im == immutables
        IN  /\ out.err = "Ok" =>
                   /\ a
                   /\ is_initialized
                   /\ get_state = Active
                   /\ Sha256(s) = im.hashlock
                   /\ now >= Threshold(DST_PUBLIC_WITHDRAWAL_TIMELOCK)
                   /\ out.state = Withdrawn
                   /\ out.log[1] = <<im.token, c, im.amount>>
                   /\ out.bal[im.token][c] >= balance[im.token][c] + im.amount
                   /\ (c # im.taker /\ im.token # NativeToken) =>
                          out.bal[im.token][im.taker] = balance[im.token][im.taker]
            /\ (/\ a
                /\ is_initialized
                /\ get_state = Active
                /\ Sha256(s) = im.hashlock
                /\ now < Threshold(DST_PUBLIC_WITHDRAWAL_TIMELOCK)) =>
                   out.err = "TimelockNotExpired" /\ out.state = state

C9_Witness ==
    /\ op = "public_withdraw"
    /\ err = "Ok"
    /\ state = Withdrawn
    /\ immutables.amount > 0
    /\ immutables.token # NativeToken
    /\ balance[immutables.token][Relayer] = immutables.amount
    /\ balance[immutables.token][Taker] = 0

(***************************************************************************)
(* C10.  On a successful public_withdraw with safety_deposit > 0 the       *)
(* maker and the taker receive the same native amount and the two shares   *)
(* together equal safety_deposit, odd values included, so that none of the *)
(* deposit stays in the escrow.                                            *)
(***************************************************************************)
C10_DepositSplitIsExact ==
    (op = "public_withdraw" /\ err = "Ok" /\ immutables.safety_deposit > 0) =>
        /\ Len(transfers) = 3
        /\ transfers[2] = <<NativeToken, immutables.maker, transfers[2][3]>>
        /\ transfers[3] = <<NativeToken, immutables.taker, transfers[3][3]>>
        /\ transfers[2][3] = transfers[3][3]
        /\ transfers[2][3] + transfers[3][3] = immutables.safety_deposit

C11_SecondDeployFails ==
    is_initialized =>
        \A hashlock \in Hashlocks, token \in Assets, amount \in Amounts,
           safety_deposit \in Deposits, timelocks \in TimelockChoices :
            LET out == DeployOutcome(TestOrderHash, hashlock, Maker, Taker, token,
                                     amount, safety_deposit, timelocks)
            IN  /\ out.err = "AlreadyInitialized"
                /\ out.immutables = immutables
                /\ out.state = state
                /\ out.events = <<>>

C11_InitializedStep ==
    is_initialized =>
        /\ immutables' = immutables
        /\ (op' = "deploy" => err' = "AlreadyInitialized")

(***************************************************************************)
(* C11.  Immutables are set exactly once per escrow instance: a second     *)
(* deploy on an instance that already has a record fails with              *)
(* AlreadyInitialized, and once the record is stored get_immutables        *)
(* returns the same value in every later state, whatever successful or     *)
(* failed operations are executed.                                         *)
(***************************************************************************)
C11_ImmutablesSetOnce == []C11_SecondDeployFails /\ [][C11_InitializedStep]_vars

C11_Witness ==
    /\ op = "deploy"
    /\ err = "AlreadyInitialized"
    /\ state = Withdrawn
    /\ immutables.amount > 0

C12_FreshDeployOutcome ==
    ~is_initialized =>
        \A hashlock \in Hashlocks, maker \in Parties, taker \in Parties,
           token \in Assets, amount \in Amounts, safety_deposit \in Deposits,
           timelocks \in TimelockChoices :
            LET out == DeployOutcome(TestOrderHash, hashlock, maker, taker, token,
                                     amount, safety_deposit, timelocks)
            IN  /\ out.err = "Ok"
                /\ out.ret = Escrow
                /\ out.state = Active
                /\ out.immutables.initialized
                /\ out.immutables.order_hash = TestOrderHash
                /\ out.immutables.hashlock = hashlock
                /\ out.immutables.maker = maker
                /\ out.immutables.taker = taker
                /\ out.immutables.token = token
                /\ out.immutables.amount = amount
                /\ out.immutables.safety_deposit = safety_deposit
                /\ out.immutables.timelocks = timelocks

C12_DeployStep ==
    (op' = "deploy" /\ err' = "Ok") =>
        /\ ~is_initialized
        /\ ret' = Escrow
        /\ state' = Active
        /\ is_initialized'
        /\ immutables'.order_hash = events'[1][2]
        /\ immutables'.maker = events'[1][3]
        /\ immutables'.taker = events'[1][4]

(***************************************************************************)
(* C12.  A successful deploy on a fresh instance returns that instance's   *)
(* own address, leaves the state Active, and stores exactly the eight      *)
(* supplied fields (order_hash, hashlock, maker, taker, token, amount,     *)
(* safety_deposit, timelocks) as the value get_immutables returns.         *)
(***************************************************************************)
C12_DeployReturnsOwnAddress == []C12_FreshDeployOutcome /\ [][C12_DeployStep]_vars

C12_Witness ==
    /\ op = "deploy"
    /\ err = "Ok"
    /\ ret = Escrow
    /\ state = Active
    /\ immutables.amount = MaxAmount
    /\ immutables.timelocks = TestTimelocks

(***************************************************************************)
(* C13.  Every escrow record that exists has amount > 0: deploy called     *)
(* with amount <= 0 is rejected with InvalidAmount and stores no record.   *)
(***************************************************************************)
C13_StoredAmountIsPositive ==
    /\ is_initialized => immutables.amount > 0
    /\ (op = "deploy" /\ err = "Ok") => immutables.amount > 0
    /\ (op = "deploy" /\ err # "Ok") => err \in {"InvalidAmount", "AlreadyInitialized"}

C15_PredictionMatchesDeployment ==
    \A salt \in Salts, im \in FactoryTerms :
        LET predicted == calculate_escrow_address(salt)
            made == deploy_escrow(salt, im)
        IN  /\ (predicted.err = "Ok" /\ made.err = "Ok") => predicted.ret = made.ret
            /\ (htlc_hash # NoValue /\ salt \notin DOMAIN deployed) =>
                   predicted.err = "Ok"

C15_PredictionStep ==
    /\ op' = "calculate_escrow_address" => UNCHANGED <<factoryVars, now>>
    /\ (op' = "deploy_escrow" /\ err' = "Ok") =>
           \E salt \in Salts :
               /\ salt \notin DOMAIN deployed
               /\ deployed' = (salt :> ret') @@ deployed
               /\ calculate_escrow_address(salt).err = "Ok"
               /\ calculate_escrow_address(salt).ret = ret'

C18_FailedDeploymentReported ==
    /\ (op = "deploy_escrow" /\ err \notin {"Ok", "NotInitialized", "AlreadyDeployed"}) =>
           err = "DeploymentFailed"
    /\ \A salt \in Salts, im \in FactoryTerms :
           LET out == deploy_escrow(salt, im)
           IN  out.err # "Ok" =>
                   /\ out.deployed = deployed
                   /\ out.instances = instances
                   /\ out.admin = admin
                   /\ out.htlc_hash = htlc_hash
                   /\ out.nonce = nonce

C19_InitializeOutcome ==
    /\ \A auths \in AuthSets, new_admin \in Principals, htlc_wasm_hash \in CodeRefs :
           LET out == initialize(auths, new_admin, htlc_wasm_hash)
           IN  /\ admin # NoValue =>
                      /\ out.err = "AlreadyInitialized"
                      /\ out.admin = admin
                      /\ out.htlc_hash = htlc_hash
                      /\ out.nonce = nonce
                      /\ out.deployed = deployed
                      /\ out.instances = instances
                      /\ out.events = <<>>
               /\ out.err = "Ok" =>
                      /\ admin = NoValue
                      /\ new_admin \in auths
                      /\ out.admin = new_admin
                      /\ out.htlc_hash = htlc_wasm_hash
               /\ (admin = NoValue /\ new_admin \notin auths) =>
                      (out.err # "Ok" /\ out.admin = NoValue)
    /\ admin # NoValue => (get_admin.err = "Ok" /\ get_admin.ret = admin)

C19_InitializeStep ==
    /\ admin # NoValue => admin' = admin
    /\ (op' = "initialize" /\ err' = "Ok") =>
           (admin = NoValue /\ admin' = events'[1][2])
    /\ (op' = "get_admin" /\ admin # NoValue) => ret' = admin

(***************************************************************************)
(* C19.  Factory initialize is one-time: it succeeds only with the         *)
(* admin's identity proof; a second initialize, whatever its arguments,    *)
(* fails with AlreadyInitialized and changes nothing; in every state after *)
(* the first initialize get_admin returns the admin given to that call.    *)
(***************************************************************************)
C19_InitializeOnce == []C19_InitializeOutcome /\ [][C19_InitializeStep]_vars

C19_Witness ==
    /\ op = "initialize"
    /\ err = "AlreadyInitialized"
    /\ admin = Outsider
    /\ DOMAIN deployed # {}

C20_UpdateOutcome ==
    \A auths \in AuthSets, new_hash \in CodeRefs :
        LET out == update_htlc_hash(auths, new_hash)
        IN  /\ admin = NoValue => out.err = "NotInitialized"
            /\ out.err = "Ok" => (admin \in auths /\ out.htlc_hash = new_hash)
            /\ out.err # "Ok" => out.htlc_hash = htlc_hash
            /\ out.admin = admin
            /\ out.nonce = nonce
            /\ out.deployed = deployed
            /\ out.instances = instances

C20_UpdateStep ==
    op' = "update_htlc_hash" =>
        /\ UNCHANGED <<admin, nonce, deployed, instances, escrowVars, now>>
        /\ err' # "Ok" => htlc_hash' = htlc_hash
        /\ admin = NoValue => err' = "NotInitialized"

(***************************************************************************)
(* C20.  update_htlc_hash fails with NotInitialized on an unconfigured     *)
(* factory, succeeds only with the stored admin's identity proof, and on   *)
(* success changes only the code reference: the admin, the registry and    *)
(* the record of every deployed escrow are left unchanged.                 *)
(***************************************************************************)
C20_UpdateChangesOnlyCodeRef == []C20_UpdateOutcome /\ [][C20_UpdateStep]_vars

C20_Witness ==
    /\ op = "update_htlc_hash"
    /\ err = "Ok"
    /\ htlc_hash = OtherWasm
    /\ DOMAIN instances # {}

C21_RegistryStep ==
    \A salt \in Salts :
        /\ salt \in DOMAIN deployed =>
               (salt \in DOMAIN deployed' /\ deployed'[salt] = deployed[salt])
        /\ is_deployed(salt).ret => is_deployed(salt).ret'

C22_CalculateOutcome ==
    \A salt \in Salts :
        LET out == calculate_escrow_address(salt)
        IN  /\ htlc_hash = NoValue => out.err = "NotInitialized"
            /\ (htlc_hash # NoValue /\ salt \in DOMAIN deployed) =>
                   out.err = "AlreadyDeployed"
            /\ out.err = "Ok" =>
                   /\ htlc_hash # NoValue
                   /\ salt \notin DOMAIN deployed
                   /\ out.ret \notin DOMAIN instances
            /\ out.err # "Ok" => out.ret = NoValue
            /\ out.admin = admin
            /\ out.htlc_hash = htlc_hash
            /\ out.nonce = nonce
            /\ out.deployed = deployed
            /\ out.instances = instances

C22_CalculateStep ==
    op' = "calculate_escrow_address" =>
        /\ UNCHANGED <<factoryVars, escrowVars, now>>
        /\ err' \in {"Ok", "NotInitialized", "AlreadyDeployed"}
        /\ err' = "Ok" => (ret' \notin DOMAIN instances /\ events' = <<>>)
        /\ err' # "Ok" => ret' = NoValue

(***************************************************************************)
(* C22.  calculate_escrow_address fails with NotInitialized on an          *)
(* unconfigured factory and with AlreadyDeployed whenever the salt already *)
(* has a registry entry; it returns an address only for a deployment not   *)
(* yet made, and it never modifies the state of the factory.               *)
(***************************************************************************)
C22_CalculateErrors == []C22_CalculateOutcome /\ [][C22_CalculateStep]_vars

C22_Witness ==
    /\ op = "calculate_escrow_address"
    /\ err = "AlreadyDeployed"
    /\ Cardinality(DOMAIN deployed) = 1
    /\ now > 0

\* the calls that move an escrow out of Active
TerminatingCalls == {"withdraw", "public_withdraw", "cancel"}

\* the calls of TerminatingCalls that would succeed on a contract
Contenders(a, contract) ==
    {call \in TerminatingCalls :
        \E c \in {Maker, Relayer}, s \in Secrets :
            instance_call(call, a, contract, c, TRUE, s, TRUE).err = "Ok"}

C23_EscrowRaceStep ==
    (op' \in TerminatingCalls /\ err' = "Ok") =>
        \E a \in DOMAIN instances :
            /\ op' \in Contenders(a, instances[a])
            /\ instances'[a].state \in {Withdrawn, Cancelled}
            /\ \A b \in DOMAIN instances \ {a} : instances'[b] = instances[b]
            /\ Contenders(a, instances'[a]) = {}
            /\ \A call \in Contenders(a, instances[a]) :
                   \A c \in {Maker, Relayer}, s \in Secrets, paid \in BOOLEAN :
                       LET second == instance_call(call, a, instances'[a], c, TRUE, s, paid)
                       IN  /\ second.err = "InvalidState"
                           /\ second.contract = instances'[a]

C23_DeployRaceStep ==
    (op' = "deploy_escrow" /\ err' = "Ok") =>
        \E salt \in Salts \ DOMAIN deployed :
            /\ \E im \in FactoryTerms : deploy_escrow(salt, im).err = "Ok"
            /\ DOMAIN deployed' = DOMAIN deployed \cup {salt}
            /\ \A im \in FactoryTerms :
                   /\ deploy_escrow(salt, im).err' = "AlreadyDeployed"
                   /\ deploy_escrow(salt, im).deployed' = deployed'
                   /\ deploy_escrow(salt, im).instances' = instances'

C23_RaceStep == C23_EscrowRaceStep /\ C23_DeployRaceStep

RolledBack(out) ==
    out.err # "Ok" =>
        /\ out.state = state
        /\ out.bal = balance
        /\ out.log = <<>>
        /\ out.events = <<>>

C24_FailedOutcome ==
    \A c \in Parties, auth \in BOOLEAN, s \in Secrets :
        /\ RolledBack(WithdrawOutcome(c, auth, s))
        /\ RolledBack(PublicWithdrawOutcome(c, auth, s))
        /\ RolledBack(CancelOutcome(c, auth))

C24_FailedStep ==
    (op' \in {"withdraw", "public_withdraw", "cancel"} /\ err' # "Ok") =>
        /\ UNCHANGED <<immutables, state, balance, now>>
        /\ transfers' = <<>>
        /\ events' = <<>>

(***************************************************************************)
(* C24.  withdraw, public_withdraw and cancel are all-or-nothing: when one *)
(* fails at any step, including the case where the transfer of the         *)
(* principal goes through and the transfer of the safety deposit fails     *)
(* for lack of native balance, the state is as before (an Active escrow is *)
(* still Active) and every balance is as before the call.                  *)
(***************************************************************************)
C24_AllOrNothing == []C24_FailedOutcome /\ [][C24_FailedStep]_vars

\* the principal is held, the safety deposit is not, and the call failed
C24_Witness ==
    /\ op \in {"withdraw", "public_withdraw", "cancel"}
    /\ err = "TransferFailed"
    /\ get_state = Active
    /\ immutables.amount > 0
    /\ immutables.safety_deposit > 0
    /\ immutables.token # NativeToken
    /\ balance[immutables.token][Escrow] >= immutables.amount
    /\ balance[NativeToken][Escrow] < immutables.safety_deposit

\* the records that differ from im in exactly one field
SingleFieldChanges(im) ==
    {[im EXCEPT !.order_hash = v] : v \in {TestOrderHash, TestOrderHash + 1} \ {im.order_hash}}
    \cup {[im EXCEPT !.hashlock = v] : v \in {Sha256(x) : x \in Secrets} \ {im.hashlock}}
    \cup {[im EXCEPT !.maker = v] : v \in Parties \ {im.maker}}
    \cup {[im EXCEPT !.taker = v] : v \in Parties \ {im.taker}}
    \cup {[im EXCEPT !.token = v] : v \in Assets \ {im.token}}
    \cup {[im EXCEPT !.amount = v] : v \in Amounts \ {im.amount}}
    \cup {[im EXCEPT !.safety_deposit = v] : v \in Deposits \ {im.safety_deposit}}
    \cup {[im EXCEPT !.timelocks = v] : v \in TimelockChoices \ {im.timelocks}}

(***************************************************************************)
(* C25.  Immutables.hash is deterministic and sensitive to every field:    *)
(* the digest get_immutables_hash returns for the stored record is the     *)
(* digest of that record, and no record that differs from it in a single   *)
(* field (order_hash, hashlock, maker, taker, token, amount,               *)
(* safety_deposit or timelocks) has that digest, sha256 being taken as     *)
(* injective on the bytes it is given.                                     *)
(***************************************************************************)
C25_HashSensitiveToEveryField ==
    (op = "get_immutables_hash" /\ err = "Ok") =>
        /\ ret = hash(immutables)
        /\ \A other \in SingleFieldChanges(immutables) : hash(other) # ret

ReadAccessors == {"get_state", "get_immutables", "get_immutables_hash"}

\* what each accessor returns in the current state, signed for or not
C26_ReadOutcome ==
    \A auth \in BOOLEAN :
        /\ GetStateOutcome(auth) = Read(get_state)
        /\ GetImmutablesOutcome(auth).err =
               (IF is_initialized THEN "Ok" ELSE "ImmutablesNotInitialized")
        /\ GetImmutablesHashOutcome(auth).err =
               (IF is_initialized THEN "Ok" ELSE "ImmutablesNotInitialized")
        /\ GetImmutablesHashOutcome(auth) = GetImmutablesHashOutcome(~auth)

C26_ReadStep ==
    /\ op' \in ReadAccessors =>
           /\ UNCHANGED <<immutables, state, balance, now, factoryVars>>
           /\ transfers' = <<>>
           /\ events' = <<>>
    /\ (op \in ReadAccessors /\ op' = op) =>
           /\ err' = err
           /\ err = "Ok" => ret' = ret

(***************************************************************************)
(* C26.  The read accessors get_state, get_immutables and                  *)
(* get_immutables_hash are pure: a call changes no escrow state and no     *)
(* balance, it needs no authorization, and the second of two successive    *)
(* calls of the same accessor returns what the first returned.             *)
(***************************************************************************)
C26_ReadAccessorsArePure == []C26_ReadOutcome /\ [][C26_ReadStep]_vars

C26_Witness ==
    /\ op = "get_immutables_hash"
    /\ err = "Ok"
    /\ ret = hash(immutables)
    /\ state = Withdrawn
    /\ balance[NativeToken][Taker] > 0

C27_ClockStep ==
    /\ op' = "advance_clock" =>
           /\ now' > now
           /\ UNCHANGED <<immutables, state, balance, deployed, instances>>
           /\ transfers' = <<>>
           /\ events' = <<>>
    /\ (get_state = Active /\ get_state' # Active) =>
           /\ op' \in {"withdraw", "public_withdraw", "cancel"}
           /\ err' = "Ok"
           /\ now' = now

(***************************************************************************)
(* C27.  Timelocks are gates, not triggers: a step in which only the clock *)
(* advances changes no escrow state, no balance and no registry entry,     *)
(* whatever thresholds it passes, and an escrow leaves Active only in a    *)
(* successful withdraw, public_withdraw or cancel call.                    *)
(***************************************************************************)
C27_TimelocksAreGates == [][C27_ClockStep]_vars

\* the clock has passed every threshold of a funded escrow, which is Active
C27_Witness ==
    /\ op = "advance_clock"
    /\ is_initialized
    /\ state = Active
    /\ immutables.timelocks = StagedTimelocks
    /\ now >= get_timelock(immutables.timelocks, DST_CANCELLATION_TIMELOCK)
    /\ immutables.amount > 0
    /\ balance[immutables.token][Escrow] >= immutables.amount

\* the thresholds of integration_test.rs, slot by slot
TestThresholds == <<0, 0, 0, 0, TestWithdrawalThreshold, TestPublicThreshold, 0>>

ThresholdArrays == {<<0, 0, 0, 0, 0, 0, 0>>, <<0, 0, 2, 0, 1, 2, 3>>, TestThresholds}

\* t with threshold v written to slot j
WithSlot(t, j, v) == [t EXCEPT ![j + 1] = v]

(***************************************************************************)
(* C28.  The seven timelock slots are independently addressable: when the  *)
(* stored timelocks are pack_timelocks(t), get_timelock returns t[i] for   *)
(* every slot i in 0..6, and writing another threshold to one slot of t    *)
(* changes what get_timelock returns for no other slot.                    *)
(***************************************************************************)
C28_SlotsRoundTrip ==
    is_initialized =>
        \A t \in ThresholdArrays :
            pack_timelocks(t) = immutables.timelocks =>
                /\ \A i \in 0..6 : get_timelock(immutables.timelocks, i) = t[i + 1]
                /\ \A j \in 0..6, v \in {1, TestWithdrawalThreshold} :
                       \A i \in (0..6) \ {j} :
                           get_timelock(pack_timelocks(WithSlot(t, j, v)), i) =
                               get_timelock(immutables.timelocks, i)

C29_RegistryWriteStep ==
    /\ deployed' # deployed =>
           /\ op' = "deploy_escrow"
           /\ err' = "Ok"
           /\ \E salt \in Salts \ DOMAIN deployed :
                  deployed' = (salt :> deployed_address(salt)) @@ deployed
    /\ (op' # "deploy_escrow" \/ err' # "Ok") => deployed' = deployed

C29_RegistryUntouched ==
    /\ \A auths \in AuthSets, who \in Principals, code \in CodeRefs :
           /\ initialize(auths, who, code).deployed = deployed
           /\ update_htlc_hash(auths, code).deployed = deployed
    /\ \A salt \in Salts :
           /\ calculate_escrow_address(salt).deployed = deployed
           /\ is_deployed(salt).deployed = deployed
           /\ \A im \in FactoryTerms :
                  deploy_escrow(salt, im).err # "Ok" =>
                      deploy_escrow(salt, im).deployed = deployed

(***************************************************************************)
(* C29.  The registry of deployed escrows is written by a successful       *)
(* deploy_escrow only: initialize, update_htlc_hash,                       *)
(* calculate_escrow_address, is_deployed, a failed deploy_escrow and every *)
(* call on an escrow (deploy called directly, withdraw, public_withdraw,   *)
(* cancel) leave it as it was.                                             *)
(***************************************************************************)
C29_OnlyDeployEscrowWritesRegistry ==
    []C29_RegistryUntouched /\ [][C29_RegistryWriteStep]_vars

\* a call on a deployed escrow has just succeeded next to a registry entry
C29_Witness ==
    /\ op \in {"withdraw", "public_withdraw", "cancel"}
    /\ err = "Ok"
    /\ Cardinality(DOMAIN deployed) = 1
    /\ htlc_hash = OtherWasm

\* the first guard of withdraw, in the order state, secret, timelock, that
\* the call with secret s does not pass in the current state
FirstFailingGuard(s) ==
    IF get_state \in Terminal THEN "InvalidState"
    ELSE IF ~is_initialized THEN "ImmutablesNotInitialized"
    ELSE IF Sha256(s) # immutables.hashlock THEN "InvalidSecret"
    ELSE IF now < Threshold(DST_WITHDRAWAL_TIMELOCK) THEN "TimelockNotExpired"
    ELSE "none"

C30_GuardOrder ==
    \A c \in Parties, auth \in BOOLEAN, s \in Secrets :
        LET out == WithdrawOutcome(c, auth, s)
        IN  /\ FirstFailingGuard(s) # "none" => out.err = FirstFailingGuard(s)
            /\ (get_state \in Terminal /\ Sha256(s) # immutables.hashlock) =>
                   out.err = "InvalidState"
            /\ ( /\ get_state = Active
                 /\ is_initialized
                 /\ Sha256(s) # immutables.hashlock
                 /\ now < Threshold(DST_WITHDRAWAL_TIMELOCK) ) =>
                   out.err = "InvalidSecret"
            /\ FirstFailingGuard(s) = "none" => out.err \in {"Ok", "TransferFailed"}

C30_WithdrawStep ==
    (op' = "withdraw" /\ err' # "Ok") =>
        /\ err' \in {"InvalidState", "ImmutablesNotInitialized", "InvalidSecret",
                      "TimelockNotExpired", "TransferFailed"}
        /\ err' = "InvalidSecret" => (get_state = Active /\ is_initialized)
        /\ err' = "TimelockNotExpired" =>
               /\ get_state = Active
               /\ now < Threshold(DST_WITHDRAWAL_TIMELOCK)
        /\ get_state \in Terminal => err' = "InvalidState"

(***************************************************************************)
(* C30.  withdraw evaluates its guards in the order state, secret,         *)
(* timelock and fails with the error of the first guard that does not      *)
(* pass: a terminal escrow gives InvalidState even for a wrong secret, a   *)
(* wrong secret submitted before the DST_WITHDRAWAL threshold gives        *)
(* InvalidSecret and not TimelockNotExpired, and a failing call reports    *)
(* exactly one error code.                                                 *)
(***************************************************************************)
C30_WithdrawGuardOrder == []C30_GuardOrder /\ [][C30_WithdrawStep]_vars

\* a wrong secret was submitted to an Active escrow before the threshold
C30_Witness ==
    /\ op = "withdraw"
    /\ err = "InvalidSecret"
    /\ is_initialized
    /\ state = Active
    /\ now < Threshold(DST_WITHDRAWAL_TIMELOCK)

\* the secret-revealed notifications among the events ev of one call
SecretRevealed(ev) == {i \in DOMAIN ev : ev[i][1] = "withdraw"}

C31_SecretRevealedStep ==
    /\ SecretRevealed(events') # {} <=> (state = Active /\ state' = Withdrawn)
    /\ SecretRevealed(events') # {} =>
           /\ op' \in {"withdraw", "public_withdraw"}
           /\ err' = "Ok"
           /\ is_initialized
           /\ Len(events') = 1
           /\ Sha256(events'[1][2]) = immutables.hashlock
    /\ (op' \in {"withdraw", "public_withdraw"} /\ err' = "Ok") =>
           Cardinality(SecretRevealed(events')) = 1
    /\ (op' = "cancel" \/ err' # "Ok") => SecretRevealed(events') = {}
    /\ state = Withdrawn => state' = Withdrawn
    /\ (op' = "deploy" /\ err' = "Ok") =>
           /\ state = NoState
           /\ events' = <<emit_escrow_created(immutables'.order_hash,
                                               immutables'.maker, immutables'.taker)>>

(***************************************************************************)
(* C31.  A secret-revealed notification is published exactly in the step   *)
(* that moves the escrow from Active to Withdrawn: a successful withdraw   *)
(* or public_withdraw publishes one, carrying a secret whose hash is the   *)
(* hashlock; a failed call and cancel publish none.  Withdrawn is never    *)
(* left, so at most one is published in the life of an escrow, and the     *)
(* escrow was created, its creation notification published, before.        *)
(***************************************************************************)
C31_SecretRevealedOnWithdrawal == [][C31_SecretRevealedStep]_vars

C31_Witness ==
    /\ op = "public_withdraw"
    /\ err = "Ok"
    /\ state = Withdrawn
    /\ events = <<emit_secret_revealed(TestSecret)>>
    /\ immutables.safety_deposit > 0

C32_DigestOfStoredTerms ==
    is_initialized =>
        /\ get_state \in {Active, Withdrawn, Cancelled}
        /\ \A auth \in BOOLEAN :
               LET terms == GetImmutablesOutcome(auth)
                   digest == GetImmutablesHashOutcome(auth)
               IN  /\ terms.err = "Ok"
                   /\ digest.err = "Ok"
                   /\ digest.ret = hash(terms.ret)

C32_DigestStep ==
    (op' = "get_immutables_hash" /\ err' = "Ok") =>
        /\ is_initialized
        /\ ret' = hash(GetImmutablesOutcome(TRUE).ret)
        /\ ret' = hash(GetImmutablesOutcome(TRUE).ret')

(***************************************************************************)
(* C32.  On a created escrow get_immutables_hash returns                   *)
(* Immutables.hash of the record get_immutables returns, in every          *)
(* reachable state, Active, Withdrawn or Cancelled.                        *)
(***************************************************************************)
C32_DigestMatchesTerms == []C32_DigestOfStoredTerms /\ [][C32_DigestStep]_vars

C32_Witness ==
    /\ op = "get_immutables_hash"
    /\ err = "Ok"
    /\ state = Cancelled
    /\ ret = hash(immutables)
    /\ immutables.timelocks = TestTimelocks

\* the account the principal goes to in a successful call o
PrincipalReceivers(o) ==
    IF o = "withdraw" THEN {immutables.taker}
    ELSE IF o = "cancel" THEN {immutables.maker}
    ELSE Parties

C33_NoSecondSuccess ==
    state \in Terminal =>
        \A c \in Parties, auth \in BOOLEAN, s \in Secrets :
            /\ WithdrawOutcome(c, auth, s).err # "Ok"
            /\ PublicWithdrawOutcome(c, auth, s).err # "Ok"
            /\ CancelOutcome(c, auth).err # "Ok"

C33_PayoutStep ==
    /\ (op' \in TerminatingCalls /\ err' = "Ok") =>
           /\ state = Active
           /\ state' \in Terminal
           /\ Len(transfers') >= 1
           /\ transfers'[1][1] = immutables.token
           /\ transfers'[1][2] \in PrincipalReceivers(op')
           /\ transfers'[1][3] = immutables.amount
           /\ \A i \in 2..Len(transfers') :
                  /\ transfers'[i][1] = NativeToken
                  /\ transfers'[i][3] <= immutables.safety_deposit
    /\ ~(op' \in TerminatingCalls /\ err' = "Ok") =>
           /\ transfers' = <<>>
           /\ state' \in Terminal <=> state \in Terminal
    /\ state \in Terminal =>
           /\ state' = state
           /\ transfers' = <<>>

(***************************************************************************)
(* C33.  Over the life of one escrow at most one of the calls withdraw,    *)
(* public_withdraw and cancel succeeds: a call succeeds on an Active       *)
(* escrow only and leaves it terminal for good, so the principal leaves    *)
(* the escrow at most once, in one transfer to the taker (withdraw), to    *)
(* the caller (public_withdraw) or to the maker (cancel), also when the    *)
(* windows for withdrawal and cancellation are open at the same time.      *)
(***************************************************************************)
C33_AtMostOnePayout == []C33_NoSecondSuccess /\ [][C33_PayoutStep]_vars

\* all thresholds are 0, so every window was open when the call went through
C33_Witness ==
    /\ op = "cancel"
    /\ err = "Ok"
    /\ state = Cancelled
    /\ immutables.timelocks = Zero64
    /\ immutables.amount > 0
    /\ transfers[1] = <<immutables.token, immutables.maker, immutables.amount>>

\* the total of an asset over the escrow, the maker, the taker and the caller
Total(bal, a) == bal[a][Escrow] + bal[a][Maker] + bal[a][Taker] + bal[a][Relayer]

\* the most the terms let the escrow pay out of asset a
Owed(a) ==
    IF ~is_initialized THEN 0
    ELSE (IF a = immutables.token THEN immutables.amount ELSE 0)
         + (IF a = NativeToken THEN immutables.safety_deposit ELSE 0)

C34_OutcomeConserves ==
    /\ \A a \in Assets :
           /\ Total(balance, a) = MaxAmount + MaxDeposit
           /\ \A p \in Accounts : balance[a][p] >= 0
    /\ \A c \in Parties, auth \in BOOLEAN, s \in Secrets :
           \A out \in {WithdrawOutcome(c, auth, s), PublicWithdrawOutcome(c, auth, s),
                        CancelOutcome(c, auth)} :
               \A a \in Assets :
                   /\ Total(out.bal, a) = Total(balance, a)
                   /\ balance[a][Escrow] - out.bal[a][Escrow] <= Owed(a)
                   /\ balance[a][Escrow] - out.bal[a][Escrow] >= 0

C34_PayoutBoundStep ==
    \A a \in Assets :
        /\ Total(balance', a) = Total(balance, a)
        /\ balance'[a][Escrow] < balance[a][Escrow] =>
               /\ op' \in TerminatingCalls
               /\ err' = "Ok"
               /\ state = Active
               /\ state' \in Terminal
               /\ balance[a][Escrow] - balance'[a][Escrow] <= Owed(a)
        /\ state \in Terminal => balance'[a][Escrow] >= balance[a][Escrow]

(***************************************************************************)
(* C34.  Asset conservation: every call on the escrow, successful or       *)
(* failed, leaves the total of each asset over the escrow, the maker, the  *)
(* taker and the caller unchanged; the escrow's holding of an asset drops  *)
(* only in the one successful withdraw, public_withdraw or cancel, and     *)
(* then by no more than amount of the token plus safety_deposit of the     *)
(* native asset, so that is the most it pays out over any sequence of      *)
(* calls.                                                                  *)
(***************************************************************************)
C34_AssetConservation == []C34_OutcomeConserves /\ [][C34_PayoutBoundStep]_vars

\* a public withdrawal of a native principal with an odd safety deposit
C34_Witness ==
    /\ op = "public_withdraw"
    /\ err = "Ok"
    /\ immutables.token = NativeToken
    /\ immutables.amount > 0
    /\ immutables.safety_deposit = 1
    /\ Len(transfers) = 3
    /\ balance[NativeToken][Escrow] = 1

C35_UncreatedOutcome ==
    ~is_initialized =>
        /\ state = NoState
        /\ \A c \in Parties, auth \in BOOLEAN, s \in Secrets :
               /\ GetStateOutcome(auth) = Read(Active)
               /\ GetImmutablesOutcome(auth) = ReadFail("ImmutablesNotInitialized")
               /\ GetImmutablesHashOutcome(auth) = ReadFail("ImmutablesNotInitialized")
               /\ WithdrawOutcome(c, auth, s).err = "ImmutablesNotInitialized"
               /\ PublicWithdrawOutcome(c, auth, s).err =
                      (IF auth THEN "ImmutablesNotInitialized" ELSE "AuthFailed")
               /\ CancelOutcome(c, auth).err =
                      (IF auth THEN "ImmutablesNotInitialized" ELSE "AuthFailed")
               /\ \A out \in {WithdrawOutcome(c, auth, s),
                                PublicWithdrawOutcome(c, auth, s), CancelOutcome(c, auth)} :
                      /\ out.bal = balance
                      /\ out.log = <<>>
                      /\ out.state = state

C35_UncreatedStep ==
    ~is_initialized =>
        /\ balance' = balance
        /\ transfers' = <<>>
        /\ op' = "get_state" => (err' = "Ok" /\ ret' = Active)
        /\ op' \in TerminatingCalls \cup {"get_immutables", "get_immutables_hash"} =>
               /\ err' \in {"ImmutablesNotInitialized", "AuthFailed"}
               /\ ret' = NoValue
               /\ UNCHANGED <<immutables, state>>

(***************************************************************************)
(* C35.  On an instance on which deploy has never succeeded get_state      *)
(* reports Active, yet withdraw, public_withdraw, cancel, get_immutables   *)
(* and get_immutables_hash all fail and transfer nothing: no funds leave   *)
(* an instance that has no stored Immutables.                              *)
(***************************************************************************)
C35_UncreatedEscrowIsInert == []C35_UncreatedOutcome /\ [][C35_UncreatedStep]_vars

C35_Witness ==
    /\ ~is_initialized
    /\ op = "withdraw"
    /\ err = "ImmutablesNotInitialized"
    /\ GetStateOutcome(FALSE).ret = Active
    /\ now > 0

C36_EnablementStep ==
    /\ now' >= now
    /\ is_initialized =>
           /\ immutables' = immutables
           /\ \A is_public \in BOOLEAN :
                  can_withdraw(immutables.timelocks, is_public) =>
                      can_withdraw(immutables.timelocks, is_public)'
           /\ \A c \in Parties :
                  can_cancel(immutables.timelocks, c, immutables.maker, immutables.taker) =>
                      can_cancel(immutables.timelocks, c, immutables.maker, immutables.taker)'

(***************************************************************************)
(* C36.  Enablement is monotone in time: the ledger clock never goes       *)
(* back, and once can_withdraw (private or public) or can_cancel holds for *)
(* an escrow and a caller it holds after every later step; a window that   *)
(* has opened never closes.                                                *)
(***************************************************************************)
C36_WindowsNeverClose == [][C36_EnablementStep]_vars

\* the clock moved on with the private window open and cancellation opening
C36_Witness ==
    /\ op = "advance_clock"
    /\ is_initialized
    /\ state = Active
    /\ immutables.timelocks = StagedTimelocks
    /\ now = Threshold(DST_CANCELLATION_TIMELOCK)
    /\ can_withdraw(immutables.timelocks, FALSE)
    /\ can_cancel(immutables.timelocks, Relayer, immutables.maker, immutables.taker)

(***************************************************************************)
(* C37.  Funds cannot be locked forever: a created escrow that holds       *)
(* amount of its token and safety_deposit of the native asset eventually   *)
(* reaches Withdrawn or Cancelled, when the clock keeps advancing and an   *)
(* authenticated caller keeps attempting cancel, because past the          *)
(* DST_CANCELLATION threshold cancel goes through for every caller.        *)
(***************************************************************************)
C37_FundsNotLockedForever == (is_initialized /\ Funded) ~> (state \in Terminal)

\* a funded escrow was cancelled past its DST_CANCELLATION threshold
C37_Witness ==
    /\ op = "cancel"
    /\ err = "Ok"
    /\ state = Cancelled
    /\ immutables.timelocks = TestTimelocks
    /\ immutables.amount > 0
    /\ immutables.safety_deposit > 0
    /\ now >= Threshold(DST_CANCELLATION_TIMELOCK)
    /\ Len(transfers) = 2

C38_RegistryConsistent ==
    /\ \A salt \in DOMAIN deployed :
           LET a == deployed[salt]
           IN  /\ a \in DOMAIN instances
               /\ instances[a].wasm = EscrowWasm
               /\ instances[a].immutables.initialized
               /\ instances[a].immutables \in FactoryTerms
               /\ instances[a].state \in {Active, Withdrawn, Cancelled}
    /\ \A a \in DOMAIN instances : \E salt \in DOMAIN deployed : deployed[salt] = a

C38_RegistryEntryStep ==
    /\ (op' = "deploy_escrow" /\ err' = "Ok") =>
           \E salt \in Salts \ DOMAIN deployed, im \in FactoryTerms :
               LET out == deploy_escrow(salt, im)
               IN  /\ out.err = "Ok"
                   /\ ret' = out.ret
                   /\ deployed' = out.deployed
                   /\ instances' = out.instances
                   /\ deployed'[salt] = ret'
                   /\ instances'[ret'].immutables = im
                   /\ instances'[ret'].state = Active
    /\ \A a \in DOMAIN instances :
           /\ a \in DOMAIN instances'
           /\ instances'[a].immutables = instances[a].immutables
           /\ instances'[a].wasm = instances[a].wasm

C39_UnconfiguredFactory ==
    htlc_hash = NoValue =>
        /\ admin = NoValue
        /\ nonce = NoValue
        /\ deployed = <<>>
        /\ instances = <<>>
        /\ \A salt \in Salts, im \in FactoryTerms :
               deploy_escrow(salt, im) = FactoryFail("NotInitialized")

C39_UnconfiguredStep ==
    /\ (op' = "deploy_escrow" /\ htlc_hash = NoValue) =>
           /\ err' = "NotInitialized"
           /\ ret' = NoValue
           /\ events' = <<>>
           /\ UNCHANGED factoryVars
    /\ (op' = "deploy_escrow" /\ err' = "Ok") =>
           /\ htlc_hash # NoValue
           /\ admin # NoValue
    /\ (htlc_hash = NoValue /\ htlc_hash' # NoValue) =>
           /\ op' = "initialize"
           /\ err' = "Ok"

(***************************************************************************)
(* C39.  deploy_escrow on a factory that has never been initialized fails  *)
(* with NotInitialized before anything is instantiated and leaves the      *)
(* registry empty and the factory unconfigured: no escrow is deployed      *)
(* through the factory before initialize has succeeded.                    *)
(***************************************************************************)
C39_NoDeploymentBeforeInitialize ==
    []C39_UnconfiguredFactory /\ [][C39_UnconfiguredStep]_vars

C39_Witness ==
    /\ op = "deploy_escrow"
    /\ err = "NotInitialized"
    /\ htlc_hash = NoValue
    /\ deployed = <<>>
    /\ instances = <<>>

====
